---- MODULE Spec2Model ----
(***************************************************************************)
(* freajs/gcp-mirror: a mirror of the npm registry's change feed.          *)
(*                                                                         *)
(*   Follower   (follower/index.js, src/unnamed/part_001 lines 21-127)     *)
(*   Dispatcher (packages handler, src/unnamed/part_003 and                *)
(*               src/packages/index.js)                                    *)
(*   Replicator (tarballs handler, src/tarballs/index.js)                  *)
(*                                                                         *)
(* Each component is a state machine of its own: SpecFollower,             *)
(* SpecDispatcher and SpecReplicator share the variables and leave the     *)
(* other components' state untouched. SpecFollowerFair adds the Follower's *)
(* scheduling, SpecRedelivery a bucket left by an earlier delivery,        *)
(* SpecHandlers runs either handler, SpecManifestKeys the key functions.   *)
(***************************************************************************)
EXTENDS Integers, Sequences, FiniteSets, TLC

VARIABLES
  \* ---- Follower ----
  fPhase,        \* "loading" | "following" | "exited"
  seq,           \* let seq = 0: the in-memory cursor
  syncingSeq,    \* let syncingSeq = false
  docStore,      \* Firestore document follower/replicate.npmjs.com
  getReq,        \* the doc.get() issued at module load
  setReqs,       \* the doc.set() calls that have not settled yet
  subscribed,    \* follow() has been called
  since,         \* the since option follow() was called with
  rlQueue,       \* calls queued inside rateLimit(12, 1000, handleChange)
  rlCount,       \* calls the rate limiter still admits in the current interval
  rlTimers,      \* time left on the timers of the rate limiter, oldest first
  hcAges,        \* history: age of each call of handleChange younger than
                 \* the interval
  pubsInFlight,  \* topic.publish calls whose callback has not run yet
  delivered,     \* history: changes the Change Source has delivered
  handedOff,     \* history: changes whose publish succeeded
  nPublish,      \* history: number of topic.publish calls issued
  nDeliv,        \* history: number of deliveries by the Change Source
  lastPub,       \* history: the change whose publish callback ran last
  lastOp,        \* history: the Follower step taken last
  \* ---- Object Store ----
  bucket,        \* storage.bucket('freajs'): key -> object
  \* ---- Replicator ----
  rInv,          \* the tarballs invocations, a delivery and a redelivery
  \* ---- Dispatcher ----
  rev,           \* which revision of the packages handler is deployed
  dInv,          \* the packages invocation
  tarTopic,      \* messages on the tarballs topic
  \* ---- Manifest Writer ----
  keyed          \* manifest records and the keys computed for them

fvars == <<fPhase, seq, syncingSeq, docStore, getReq, setReqs, subscribed,
           since, rlQueue, rlCount, rlTimers, hcAges, pubsInFlight, delivered,
           handedOff, nPublish, nDeliv, lastPub, lastOp>>

\* The rate limiter's own state and the history of the calls it let through
rlvars == <<rlCount, rlTimers, hcAges>>

rvars == <<bucket, rInv>>

dvars == <<rev, dInv, tarTopic>>

vars == <<fvars, rvars, dvars, keyed>>

otherThanFollower == <<rvars, dvars, keyed>>
otherThanReplicator == <<fvars, dvars, keyed>>
otherThanDispatcher == <<fvars, rInv, keyed>>
otherThanManifestKeys == <<fvars, rvars, dvars>>

\* ------------------------------------------------------------------------
\* Bounds of the model
\* ------------------------------------------------------------------------
MaxSeq == 2          \* sequence numbers 1..MaxSeq
MaxDeliveries == 2   \* deliveries by the Change Source in one run
\* rateLimit(12, 1000, handleChange), scaled down: the calls admitted per
\* interval and the length of the interval in units of time
RateLimitCount == 1
RateLimitInterval == 1

\* ------------------------------------------------------------------------
\* JavaScript values
\* ------------------------------------------------------------------------
\* undefined, for a number that is missing (change.seq of a change without seq)
Undef == -1

\* JavaScript's a > b on numbers-or-undefined: false when either is undefined
JsGt(a, b) == a # Undef /\ b # Undef /\ a > b

Max(a, b) == IF a > b THEN a ELSE b

RemoveAt(s, i) == [j \in 1..(Len(s) - 1) |-> IF j < i THEN s[j] ELSE s[j + 1]]

\* ------------------------------------------------------------------------
\* Follower
\* ------------------------------------------------------------------------
\* What the Change Source hands to the callback: (e, change). A delivery with
\* no change object (an error delivery), a change without id, a change
\* without seq, or a change with both.
NoChange == [present |-> FALSE, id |-> "", seq |-> Undef]

Changes ==
  {NoChange,
   [present |-> TRUE, id |-> "", seq |-> 1],
   [present |-> TRUE, id |-> "left-pad", seq |-> Undef]} \cup
  [present : {TRUE}, id : {"left-pad"}, seq : 1..MaxSeq]

\* The persisted documents a process can find at startup
StoredDocs ==
  {[exists |-> FALSE, seq |-> 0]} \cup [exists : {TRUE}, seq : 0..MaxSeq]

\* The process at module load, with document doc in the Checkpoint Store
FollowerLoaded(doc) ==
  /\ fPhase = "loading"
  /\ seq = 0
  /\ syncingSeq = FALSE
  /\ docStore = doc
  /\ getReq = [state |-> "pending", exists |-> FALSE, seq |-> 0]
  /\ setReqs = <<>>
  /\ subscribed = FALSE
  /\ since = 0
  /\ rlQueue = <<>>
  /\ rlCount = RateLimitCount
  /\ rlTimers = <<>>
  /\ hcAges = <<>>
  /\ pubsInFlight = <<>>
  /\ delivered = {}
  /\ handedOff = {}
  /\ nPublish = 0
  /\ nDeliv = 0
  /\ lastPub = NoChange
  /\ lastOp = "load"

\* doc.get(): Firestore reads the document; the snapshot travels back
DocGetRead ==
  /\ UNCHANGED otherThanFollower
  /\ UNCHANGED rlvars
  /\ fPhase = "loading"
  /\ getReq.state = "pending"
  /\ getReq' = [state |-> "read", exists |-> docStore.exists, seq |-> docStore.seq]
  /\ lastOp' = "docGetRead"
  /\ UNCHANGED <<fPhase, seq, syncingSeq, docStore, setReqs, subscribed, since,
                 rlQueue, pubsInFlight, delivered, handedOff, nPublish, nDeliv, lastPub>>

\* startFollowing(): follow({since: seq, ...}, rateLimit(12, 1000, handleChange))
StartFollowing(s) ==
  /\ subscribed' = TRUE
  /\ since' = s

\* mutant: a missing document falls back to the start of the feed
DocGetThenDefault ==
  /\ UNCHANGED otherThanFollower
  /\ UNCHANGED rlvars
  /\ fPhase = "loading"
  /\ getReq.state = "read"
  /\ getReq' = [getReq EXCEPT !.state = "done"]
  /\ seq' = IF getReq.exists THEN getReq.seq ELSE seq
  /\ StartFollowing(seq')
  /\ fPhase' = "following"
  /\ lastOp' = "docGetThen"
  /\ UNCHANGED <<syncingSeq, docStore, setReqs, rlQueue, pubsInFlight,
                 delivered, handedOff, nPublish, nDeliv, lastPub>>

\* .then((doc) => ...): process.exit(1) when the document does not exist,
\* otherwise seq = doc.data().seq and startFollowing()
DocGetThen ==
  /\ UNCHANGED otherThanFollower
  /\ UNCHANGED rlvars
  /\ fPhase = "loading"
  /\ getReq.state = "read"
  /\ getReq' = [getReq EXCEPT !.state = "done"]
  /\ lastOp' = "docGetThen"
  /\ IF ~getReq.exists
       THEN /\ fPhase' = "exited"
            /\ UNCHANGED <<seq, subscribed, since>>
       ELSE /\ seq' = getReq.seq
            /\ StartFollowing(seq')
            /\ fPhase' = "following"
  /\ UNCHANGED <<syncingSeq, docStore, setReqs, rlQueue, pubsInFlight,
                 delivered, handedOff, nPublish, nDeliv, lastPub>>

\* .catch((e) => ...): the read failed, process.exit(1)
DocGetCatch ==
  /\ UNCHANGED otherThanFollower
  /\ UNCHANGED rlvars
  /\ fPhase = "loading"
  /\ getReq.state \in {"pending", "read"}
  /\ getReq' = [getReq EXCEPT !.state = "failed"]
  /\ fPhase' = "exited"
  /\ lastOp' = "docGetCatch"
  /\ UNCHANGED <<seq, syncingSeq, docStore, setReqs, subscribed, since,
                 rlQueue, pubsInFlight, delivered, handedOff, nPublish, nDeliv, lastPub>>

\* mutant: syncSeq without the in-flight guard
SyncSeqUnguarded ==
  /\ UNCHANGED otherThanFollower
  /\ UNCHANGED rlvars
  /\ fPhase # "exited"
  /\ lastOp' = "syncSeq"
  /\ syncingSeq' = TRUE
  /\ setReqs' = Append(setReqs, [value |-> seq, applied |-> FALSE])
  /\ UNCHANGED <<fPhase, seq, docStore, getReq, subscribed, since, rlQueue,
                 pubsInFlight, delivered, handedOff, nPublish, nDeliv, lastPub>>

\* setInterval(syncSeq, 5000), armed when the module loads: one timer tick.
\* if (syncingSeq) return; syncingSeq = true; doc.set({ seq })
SyncSeq ==
  /\ UNCHANGED otherThanFollower
  /\ UNCHANGED rlvars
  /\ fPhase # "exited"
  /\ lastOp' = "syncSeq"
  /\ IF syncingSeq
       THEN UNCHANGED <<syncingSeq, setReqs>>
       ELSE /\ syncingSeq' = TRUE
            /\ setReqs' = Append(setReqs, [value |-> seq, applied |-> FALSE])
  /\ UNCHANGED <<fPhase, seq, docStore, getReq, subscribed, since, rlQueue,
                 pubsInFlight, delivered, handedOff, nPublish, nDeliv, lastPub>>

\* Firestore applies a doc.set({ seq }) that is in flight (also after the
\* process has exited: the request is already on the wire)
DocSetApply(i) ==
  /\ UNCHANGED otherThanFollower
  /\ UNCHANGED rlvars
  /\ i \in DOMAIN setReqs
  /\ ~setReqs[i].applied
  /\ docStore' = [exists |-> TRUE, seq |-> setReqs[i].value]
  /\ setReqs' = [setReqs EXCEPT ![i].applied = TRUE]
  /\ lastOp' = "docSetApply"
  /\ UNCHANGED <<fPhase, seq, syncingSeq, getReq, subscribed, since, rlQueue,
                 pubsInFlight, delivered, handedOff, nPublish, nDeliv, lastPub>>

\* doc.set(...).then(() => { syncingSeq = false })
DocSetThen(i) ==
  /\ UNCHANGED otherThanFollower
  /\ UNCHANGED rlvars
  /\ fPhase # "exited"
  /\ i \in DOMAIN setReqs
  /\ setReqs[i].applied
  /\ setReqs' = RemoveAt(setReqs, i)
  /\ syncingSeq' = FALSE
  /\ lastOp' = "docSetThen"
  /\ UNCHANGED <<fPhase, seq, docStore, getReq, subscribed, since, rlQueue,
                 pubsInFlight, delivered, handedOff, nPublish, nDeliv, lastPub>>

\* mutant: a failed write leaves the in-flight guard set
DocSetCatchHolds(i) ==
  /\ UNCHANGED otherThanFollower
  /\ UNCHANGED rlvars
  /\ fPhase # "exited"
  /\ i \in DOMAIN setReqs
  /\ setReqs' = RemoveAt(setReqs, i)
  /\ lastOp' = "docSetCatch"
  /\ UNCHANGED <<fPhase, seq, syncingSeq, docStore, getReq, subscribed, since,
                 rlQueue, pubsInFlight, delivered, handedOff, nPublish, nDeliv,
                 lastPub>>

\* doc.set(...).catch((e) => { syncingSeq = false; log.error(...) }): the write
\* is reported as failed, whether or not Firestore had applied it
DocSetCatch(i) ==
  /\ UNCHANGED otherThanFollower
  /\ UNCHANGED rlvars
  /\ fPhase # "exited"
  /\ i \in DOMAIN setReqs
  /\ setReqs' = RemoveAt(setReqs, i)
  /\ syncingSeq' = FALSE
  /\ lastOp' = "docSetCatch"
  /\ UNCHANGED <<fPhase, seq, docStore, getReq, subscribed, since, rlQueue,
                 pubsInFlight, delivered, handedOff, nPublish, nDeliv, lastPub>>

\* mutant: handleChange publishes whatever it is called with
HandleChangeNoCheck(change) ==
  /\ pubsInFlight' = Append(pubsInFlight, change)
  /\ nPublish' = nPublish + 1
  /\ hcAges' = Append(hcAges, 0)

\* function handleChange (e, change), as the rate limiter calls it: drop a
\* change without id, otherwise topic.publish(changeId, topicPublished)
HandleChange(change) ==
  /\ IF ~change.present \/ change.id = ""
       THEN UNCHANGED <<pubsInFlight, nPublish>>
       ELSE /\ pubsInFlight' = Append(pubsInFlight, change)
            /\ nPublish' = nPublish + 1
  /\ hcAges' = Append(hcAges, 0)

\* call_next(args) of the rate limiter: arm a timer of limitInterval, then
\* run the oldest queued call, or the call made with args when none is queued
CallNext(timers, args) ==
  /\ rlTimers' = Append(timers, RateLimitInterval)
  /\ IF rlQueue = <<>>
       THEN /\ HandleChange(args)
            /\ UNCHANGED rlQueue
       ELSE /\ HandleChange(Head(rlQueue))
            /\ rlQueue' = Tail(rlQueue)

\* mutant: follow() is given handleChange itself, not the rate-limited wrapper
DeliverUnlimited(change) ==
  /\ UNCHANGED otherThanFollower
  /\ fPhase = "following"
  /\ subscribed
  /\ nDeliv < MaxDeliveries
  /\ nDeliv' = nDeliv + 1
  /\ delivered' = delivered \cup {change}
  /\ lastOp' = "deliver"
  /\ HandleChange(change)
  /\ UNCHANGED <<rlCount, rlTimers, rlQueue>>
  /\ UNCHANGED <<fPhase, seq, syncingSeq, docStore, getReq, setReqs, subscribed,
                 since, handedOff, lastPub>>

\* The Change Source calls the callback follow() was given with (e, change):
\* the wrapper rateLimit(12, 1000, handleChange) queues the call when no call
\* is left in the current interval, and otherwise takes one and calls on
Deliver(change) ==
  /\ UNCHANGED otherThanFollower
  /\ fPhase = "following"
  /\ subscribed
  /\ nDeliv < MaxDeliveries
  /\ nDeliv' = nDeliv + 1
  /\ delivered' = delivered \cup {change}
  /\ lastOp' = "deliver"
  /\ IF rlCount <= 0
       THEN /\ rlQueue' = Append(rlQueue, change)
            /\ UNCHANGED <<rlCount, rlTimers, hcAges, pubsInFlight, nPublish>>
       ELSE /\ rlCount' = rlCount - 1
            /\ CallNext(rlTimers, change)
  /\ UNCHANGED <<fPhase, seq, syncingSeq, docStore, getReq, setReqs, subscribed,
                 since, handedOff, lastPub>>

\* The oldest timer of the rate limiter fires, limitInterval or more after it
\* was armed: a queued call is run in the place of the call that armed it,
\* or, when none is queued, its place is given back
RateLimitTimeout ==
  /\ UNCHANGED otherThanFollower
  /\ fPhase = "following"
  /\ rlTimers # <<>>
  /\ Head(rlTimers) = 0
  /\ lastOp' = "rateLimitTimeout"
  /\ IF rlQueue # <<>>
       THEN /\ CallNext(Tail(rlTimers), NoChange)
            /\ UNCHANGED rlCount
       ELSE /\ rlCount' = rlCount + 1
            /\ rlTimers' = Tail(rlTimers)
            /\ UNCHANGED <<rlQueue, hcAges, pubsInFlight, nPublish>>
  /\ UNCHANGED <<fPhase, seq, syncingSeq, docStore, getReq, setReqs, subscribed,
                 since, delivered, handedOff, nDeliv, lastPub>>

\* One unit of time passes: the timers of the rate limiter come closer to
\* firing and the calls of handleChange grow older; a call leaves the window
\* when it is limitInterval old
Tick ==
  /\ UNCHANGED otherThanFollower
  /\ fPhase = "following"
  /\ hcAges # <<>> \/ \E n \in DOMAIN rlTimers : rlTimers[n] > 0
  /\ rlTimers' = [n \in DOMAIN rlTimers |-> Max(rlTimers[n] - 1, 0)]
  /\ hcAges' = SelectSeq([n \in DOMAIN hcAges |-> hcAges[n] + 1],
                         LAMBDA age : age < RateLimitInterval)
  /\ lastOp' = "tick"
  /\ UNCHANGED <<fPhase, seq, syncingSeq, docStore, getReq, setReqs, subscribed,
                 since, rlQueue, rlCount, pubsInFlight, delivered, handedOff,
                 nPublish, nDeliv, lastPub>>

\* mutant: the cursor follows the last published change, whatever its seq
TopicPublishedNoMax(i, ok) ==
  /\ UNCHANGED otherThanFollower
  /\ UNCHANGED rlvars
  /\ fPhase = "following"
  /\ i \in DOMAIN pubsInFlight
  /\ LET change == pubsInFlight[i] IN
       /\ seq' = IF change.seq # Undef THEN change.seq ELSE seq
       /\ handedOff' = IF ok THEN handedOff \cup {change} ELSE handedOff
  /\ pubsInFlight' = RemoveAt(pubsInFlight, i)
  /\ lastPub' = pubsInFlight[i]
  /\ lastOp' = "topicPublished"
  /\ UNCHANGED <<fPhase, syncingSeq, docStore, getReq, setReqs, subscribed,
                 since, rlQueue, delivered, nPublish, nDeliv>>

\* function topicPublished (e): if (change.seq > seq) seq = change.seq, on
\* success (ok) and on failure alike
TopicPublished(i, ok) ==
  /\ UNCHANGED otherThanFollower
  /\ UNCHANGED rlvars
  /\ fPhase = "following"
  /\ i \in DOMAIN pubsInFlight
  /\ LET change == pubsInFlight[i] IN
       /\ seq' = IF JsGt(change.seq, seq) THEN change.seq ELSE seq
       /\ handedOff' = IF ok THEN handedOff \cup {change} ELSE handedOff
  /\ pubsInFlight' = RemoveAt(pubsInFlight, i)
  /\ lastPub' = pubsInFlight[i]
  /\ lastOp' = "topicPublished"
  /\ UNCHANGED <<fPhase, syncingSeq, docStore, getReq, setReqs, subscribed,
                 since, rlQueue, delivered, nPublish, nDeliv>>

NextFollower ==
  \/ DocGetRead
  \/ DocGetThen
  \/ DocGetCatch
  \/ SyncSeq
  \/ \E i \in 1..2 : DocSetApply(i)
  \/ \E i \in 1..2 : DocSetThen(i)
  \/ \E i \in 1..2 : DocSetCatch(i)
  \/ \E change \in Changes : Deliver(change)
  \/ RateLimitTimeout
  \/ Tick
  \/ \E i \in 1..MaxDeliveries, ok \in BOOLEAN : TopicPublished(i, ok)

\* ------------------------------------------------------------------------
\* Replicator (tarballs handler)
\* ------------------------------------------------------------------------
MaxChunks == 2       \* chunks one download yields at most

\* The invocations that can be under way at once: Pub/Sub delivers at least
\* once, so a task and its redelivery can overlap
Invocations == {"d1", "d2"}

Bytes == {0, 1}
Chunks == {<<0>>, <<1, 0>>}

\* The url of a tarball and its base64 form in message.data
TarballUrl == "https://registry/left-pad-1.0.0.tgz"
TarballUrl2 == "https://registry/left-pad-1.0.1.tgz"
PackageName == "left-pad"
\* Pub/Sub hands message.data to a Cloud Function base64-encoded
Base64Encode(str) ==
  CASE str = "" -> ""
    [] str = TarballUrl -> "aHR0cHM6Ly9yZWdpc3RyeS9sZWZ0LXBhZC0xLjAuMC50Z3o="
    [] str = TarballUrl2 -> "aHR0cHM6Ly9yZWdpc3RyeS9sZWZ0LXBhZC0xLjAuMS50Z3o="
    [] str = PackageName -> "bGVmdC1wYWQ="
\* Buffer.from(data || '', 'base64').toString()
Base64Decode(data) ==
  CASE data = "" -> ""
    [] data = "aHR0cHM6Ly9yZWdpc3RyeS9sZWZ0LXBhZC0xLjAuMC50Z3o=" -> TarballUrl
    [] data = "aHR0cHM6Ly9yZWdpc3RyeS9sZWZ0LXBhZC0xLjAuMS50Z3o=" -> TarballUrl2
    [] data = "bGVmdC1wYWQ=" -> PackageName

\* crypto.createHash('sha1'), scaled down to a 4-bit digest.
\* HashInit is the state of a fresh hash, HashUpdate is integrity.update(chunk)
HashInit == 5
HashByte(h, b) == (h * 3 + b + 1) % 16
RECURSIVE HashUpdate(_, _)
HashUpdate(h, chunk) ==
  IF chunk = <<>> THEN h ELSE HashUpdate(HashByte(h, Head(chunk)), Tail(chunk))
\* integrity.setEncoding('hex'); integrity.end(); integrity.read(): lower-case hex
HexDigits == <<"0", "1", "2", "3", "4", "5", "6", "7",
               "8", "9", "a", "b", "c", "d", "e", "f">>
HashHex(h) == HexDigits[h + 1]
\* The hex SHA-1 of a whole byte string
Sha1Hex(bytes) == HashHex(HashUpdate(HashInit, bytes))

\* Destination keys and expected digests a task can carry: the digest of the
\* published tarball <<1, 0, 0>> as the registry writes it, and in upper case
Paths == {"left-pad/1.0.0/left-pad-1.0.0.tgz", "left-pad/1.0.1/left-pad-1.0.1.tgz"}
Shasums == {"d", "D"}

\* message.attributes: the map with path and shasum ("" stands for an
\* attribute that is missing), or no map at all
NoAttributes == [present |-> FALSE, path |-> "", shasum |-> ""]
Attributes(path, shasum) == [present |-> TRUE, path |-> path, shasum |-> shasum]

\* Pub/Sub messages on the tarballs topic: with the url of a tarball and any
\* attributes, or without data
TarballMessages ==
  [data : {Base64Encode(TarballUrl)},
   attributes : {NoAttributes} \cup
                {Attributes(path, "d") : path \in Paths \cup {""}} \cup
                {Attributes("left-pad/1.0.0/left-pad-1.0.0.tgz", shasum) :
                   shasum \in Shasums \cup {""}}]
  \cup
  [data : {""},
   attributes : {NoAttributes, Attributes("left-pad/1.0.0/left-pad-1.0.0.tgz", "d")}]

\* The keys the tarballs function can name in bucket.file(path)
TarballKeys == Paths \cup {""}

\* const url = Buffer.from(message.data || '', 'base64').toString()
\* const { path, shasum } = message.attributes
TaskOf(message) ==
  [url |-> Base64Decode(message.data),
   path |-> message.attributes.path,
   shasum |-> message.attributes.shasum]

NoObject == [exists |-> FALSE, bytes |-> <<>>, writer |-> ""]
Object(bytes, writer) == [exists |-> TRUE, bytes |-> bytes, writer |-> writer]

IdleInv ==
  [phase |-> "idle", attrs |-> FALSE, url |-> "", path |-> "", shasum |-> "",
   fetched |-> <<>>, sunk |-> <<>>, hash |-> HashInit, nChunks |-> 0,
   wrote |-> 0, events |-> <<>>, err |-> FALSE, cbErr |-> FALSE]

InitReplicator == rInv = [i \in Invocations |-> IdleInv]

\* The bucket holding no object under any of keys
EmptyBucket(keys) == bucket = [k \in keys |-> NoObject]

Log(i, ev) == Append(rInv[i].events, ev)
Log2(i, ev1, ev2) == Append(Append(rInv[i].events, ev1), ev2)

\* exports.tarballs(message, _, cb) up to miss.pipe(...): decode the url,
\* read the attributes, discard a message without url, else open the streams.
\* Destructuring message.attributes throws a TypeError when the message has no
\* attributes map, before the logger and callback exist. bucket.file(path)
\* with path undefined is the storage library's business: it throws
\* (fileThrows) or hands back a file named by the missing path.
Tarballs(i, message, fileThrows) ==
  /\ UNCHANGED otherThanReplicator
  /\ rInv[i].phase = "idle"
  /\ fileThrows => (message.attributes.present /\ message.attributes.path = ""
                      /\ message.data # "")
  /\ IF ~message.attributes.present
       THEN rInv' = [rInv EXCEPT ![i].phase = "thrown",
                                 ![i].url = Base64Decode(message.data),
                                 ![i].events = <<"throw">>]
       ELSE LET task == TaskOf(message)
                inv == [rInv[i] EXCEPT !.attrs = TRUE,
                                       !.url = task.url,
                                       !.path = task.path,
                                       !.shasum = task.shasum]
            IN IF task.url = ""
                 THEN rInv' = [rInv EXCEPT ![i] =
                        [inv EXCEPT !.phase = "flushing",
                                    !.events = <<"processing",
                                                 "error: invalid message length",
                                                 "callback">>]]
                 ELSE IF fileThrows
                   THEN rInv' = [rInv EXCEPT ![i] =
                          [inv EXCEPT !.phase = "thrown",
                                      !.events = <<"processing", "throw">>]]
                   ELSE rInv' = [rInv EXCEPT ![i] =
                          [inv EXCEPT !.phase = "stream",
                                      !.events = <<"processing", "open">>]]
  /\ UNCHANGED bucket

\* mutant: the handler digests the chunk but hands nothing on to the upload
IntegrityCheckHandlerSwallow(i, chunk) ==
  /\ UNCHANGED otherThanReplicator
  /\ rInv[i].phase = "stream"
  /\ rInv[i].nChunks < MaxChunks
  /\ rInv' = [rInv EXCEPT ![i].fetched = rInv[i].fetched \o chunk,
                          ![i].hash = HashUpdate(rInv[i].hash, chunk),
                          ![i].nChunks = rInv[i].nChunks + 1]
  /\ UNCHANGED bucket

\* integrityCheckHandler(chunk, enc, cb2): got.stream yields a chunk,
\* integrity.update(chunk), callback2(null, chunk) forwards it to the upload
IntegrityCheckHandler(i, chunk) ==
  /\ UNCHANGED otherThanReplicator
  /\ rInv[i].phase = "stream"
  /\ rInv[i].nChunks < MaxChunks
  /\ rInv' = [rInv EXCEPT ![i].fetched = rInv[i].fetched \o chunk,
                          ![i].hash = HashUpdate(rInv[i].hash, chunk),
                          ![i].sunk = rInv[i].sunk \o chunk,
                          ![i].nChunks = rInv[i].nChunks + 1]
  /\ UNCHANGED bucket

\* The download ends and the upload finishes: the object is created or
\* replaced under the destination key
WriteFinish(i) ==
  /\ UNCHANGED otherThanReplicator
  /\ rInv[i].phase = "stream"
  /\ bucket' = [bucket EXCEPT ![rInv[i].path] = Object(rInv[i].sunk, i)]
  /\ rInv' = [rInv EXCEPT ![i].phase = "written",
                          ![i].wrote = 1 + Cardinality({j \in Invocations :
                                                         rInv[j].wrote > 0}),
                          ![i].events = Log(i, "finish")]

\* The download or the upload fails: miss.pipe calls back with e, which is
\* logged, and callback() runs. Whether a partial object is left behind
\* depends on the store (partial = TRUE: it is).
PipeError(i, partial) ==
  /\ UNCHANGED otherThanReplicator
  /\ rInv[i].phase = "stream"
  /\ bucket' = IF partial
                 THEN [bucket EXCEPT ![rInv[i].path] = Object(rInv[i].sunk, i)]
                 ELSE bucket
  /\ rInv' = [rInv EXCEPT ![i].phase = "flushing",
                          ![i].events = Log2(i, "error: failed to download/upload",
                                             "callback")]

\* mutant: a failed integrity check is logged but the object is kept
PipeDoneNoDelete(i) ==
  /\ UNCHANGED otherThanReplicator
  /\ rInv[i].phase = "written"
  /\ rInv' = [rInv EXCEPT ![i].phase = "flushing",
                          ![i].events =
                            IF HashHex(rInv[i].hash) = rInv[i].shasum
                              THEN Log(i, "callback")
                              ELSE Log2(i, "error: failed integrity check",
                                        "callback")]
  /\ UNCHANGED bucket

\* The miss.pipe callback without error: integrity.end(), hash =
\* integrity.read(); callback() when hash === shasum, else log and
\* file.delete(callback)
PipeDone(i) ==
  /\ UNCHANGED otherThanReplicator
  /\ rInv[i].phase = "written"
  /\ IF HashHex(rInv[i].hash) = rInv[i].shasum
       THEN rInv' = [rInv EXCEPT ![i].phase = "flushing",
                                 ![i].events = Log(i, "callback")]
       ELSE rInv' = [rInv EXCEPT ![i].phase = "deleting",
                                 ![i].events = Log2(i, "error: failed integrity check",
                                                    "delete")]
  /\ UNCHANGED bucket

\* file.delete(callback) succeeds: the object under the key is removed
DeleteOk(i) ==
  /\ UNCHANGED otherThanReplicator
  /\ rInv[i].phase = "deleting"
  /\ bucket[rInv[i].path].exists
  /\ bucket' = [bucket EXCEPT ![rInv[i].path] = NoObject]
  /\ rInv' = [rInv EXCEPT ![i].phase = "flushing",
                          ![i].events = Log2(i, "delete ok", "callback")]

\* file.delete(callback) fails (the object is gone already, or the store is
\* unreachable): callback runs all the same, with the error as its argument
DeleteFail(i) ==
  /\ UNCHANGED otherThanReplicator
  /\ rInv[i].phase = "deleting"
  /\ rInv' = [rInv EXCEPT ![i].phase = "flushing",
                          ![i].err = TRUE,
                          ![i].events = Log2(i, "delete failed", "callback")]
  /\ UNCHANGED bucket

\* log.callback(cb): () => stackdriver.stream.end(cb) takes no argument, so
\* what callback was called with is dropped; the logs are flushed and the
\* Cloud Function's cb is invoked as the stream's finish listener, without
\* argument
Flushed(i) ==
  /\ UNCHANGED otherThanReplicator
  /\ rInv[i].phase = "flushing"
  /\ rInv' = [rInv EXCEPT ![i].phase = "done",
                          ![i].cbErr = FALSE,
                          ![i].events = Log(i, "cb")]
  /\ UNCHANGED bucket

NextReplicator ==
  \/ \E i \in Invocations, message \in TarballMessages, fileThrows \in BOOLEAN :
       Tarballs(i, message, fileThrows)
  \/ \E i \in Invocations, chunk \in Chunks : IntegrityCheckHandler(i, chunk)
  \/ \E i \in Invocations : WriteFinish(i)
  \/ \E i \in Invocations, partial \in BOOLEAN : PipeError(i, partial)
  \/ \E i \in Invocations : PipeDone(i)
  \/ \E i \in Invocations : DeleteOk(i)
  \/ \E i \in Invocations : DeleteFail(i)
  \/ \E i \in Invocations : Flushed(i)


\* ------------------------------------------------------------------------
\* Dispatcher (packages handler)
\* ------------------------------------------------------------------------
MaxTarballs == 2     \* entries of manifest.tarballs at most
MaxVersions == 1     \* entries of manifest.versions at most

\* The revisions of the handler in the repository: the one with the full
\* shape validation (src/unnamed/part_003 lines 1-316) and the one that
\* deploy.sh deploys from packages/ (src/packages/index.js)
Revisions == {"unnamed/part_003", "packages/index.js"}

SeqsUpTo(S, n) == UNION {[1..m -> S] : m \in 0..n}

\* A package or version manifest (the json property), or its absence
Json(name, version) == [present |-> TRUE, name |-> name, version |-> version]
NoJson == [present |-> FALSE, name |-> "", version |-> ""]

\* Entries of manifest.tarballs: two well-formed ones and one for each
\* property that can be missing ("" stands for a missing property)
TarballRefs ==
  {[path |-> "left-pad/1.0.0/left-pad-1.0.0.tgz", shasum |-> "d", tarball |-> TarballUrl],
   [path |-> "left-pad/1.0.1/left-pad-1.0.1.tgz", shasum |-> "d", tarball |-> TarballUrl2],
   [path |-> "", shasum |-> "d", tarball |-> TarballUrl],
   [path |-> "left-pad/1.0.0/left-pad-1.0.0.tgz", shasum |-> "", tarball |-> TarballUrl],
   [path |-> "left-pad/1.0.0/left-pad-1.0.0.tgz", shasum |-> "d", tarball |-> ""]}

\* Entries of manifest.versions
VersionRecords ==
  {[json |-> Json(PackageName, "1.0.0"), version |-> "1.0.0"],
   [json |-> Json(PackageName, "1.0.1"), version |-> "1.0.1"],
   [json |-> NoJson, version |-> "1.0.0"],
   [json |-> Json(PackageName, "1.0.0"), version |-> ""]}

\* manifest.versions / manifest.tarballs as npm-change-resolve may return
\* them: missing, an array, or a value that is not an array (an object, whose
\* values async.each iterates like the items of an array)
Collections(S, n) ==
  {[kind |-> "missing", items |-> <<>>]} \cup
  {[kind |-> "array", items |-> items] : items \in SeqsUpTo(S, n)} \cup
  {[kind |-> "object", items |-> items] : items \in SeqsUpTo(S, 1)}

\* manifest.json as npm-change-resolve may return it: missing, without a
\* name, or the package level manifest
IndexRecords == {NoJson, Json("", ""), Json(PackageName, "")}

Manifests ==
  [json : IndexRecords,
   versions : Collections(VersionRecords, MaxVersions),
   tarballs : Collections(TarballRefs, MaxTarballs)]

NoManifest ==
  [json |-> NoJson,
   versions |-> [kind |-> "missing", items |-> <<>>],
   tarballs |-> [kind |-> "missing", items |-> <<>>]]

\* The segments of a path: the pieces between its "/" characters
RECURSIVE Segments(_)
Segments(str) ==
  IF \A i \in 1..Len(str) : SubSeq(str, i, i) # "/"
    THEN <<str>>
    ELSE LET i == CHOOSE i \in 1..Len(str) :
                    /\ SubSeq(str, i, i) = "/"
                    /\ \A j \in 1..(i - 1) : SubSeq(str, j, j) # "/"
         IN <<SubSeq(str, 1, i - 1)>> \o Segments(SubSeq(str, i + 1, Len(str)))

\* normalizeString of path.normalize: empty and "." segments are dropped and
\* ".." takes back the segment before it (at the root it is dropped, at the
\* head of a relative path it is kept)
RECURSIVE Resolve(_, _, _)
Resolve(segs, stack, absolute) ==
  IF segs = <<>> THEN stack
  ELSE LET seg == Head(segs)
           stack2 ==
             IF seg \in {"", "."} THEN stack
             ELSE IF seg # ".." THEN Append(stack, seg)
             ELSE IF stack # <<>> /\ stack[Len(stack)] # ".."
               THEN SubSeq(stack, 1, Len(stack) - 1)
             ELSE IF absolute THEN stack
             ELSE Append(stack, "..")
       IN Resolve(Tail(segs), stack2, absolute)

\* parts.join('/')
RECURSIVE JoinSlash(_)
JoinSlash(parts) ==
  IF parts = <<>> THEN ""
  ELSE IF Len(parts) = 1 THEN parts[1]
  ELSE parts[1] \o "/" \o JoinSlash(Tail(parts))

\* path.normalize(path) for a path that is not empty
PathNormalize(path) ==
  LET absolute == SubSeq(path, 1, 1) = "/"
      trailing == SubSeq(path, Len(path), Len(path)) = "/"
      resolved == JoinSlash(Resolve(Segments(path), <<>>, absolute))
      tail == IF resolved = ""
                THEN IF absolute THEN "" ELSE IF trailing THEN "./" ELSE "."
                ELSE IF trailing THEN resolved \o "/" ELSE resolved
  IN IF absolute THEN "/" \o tail ELSE tail

\* path.join(...parts): the parts that are not empty are joined with "/" and
\* the result is normalized; "." when there is nothing to join
PathJoin(parts) ==
  LET given == SelectSeq(parts, LAMBDA part : part # "")
  IN IF given = <<>> THEN "." ELSE PathNormalize(JoinSlash(given))

\* JSON.stringify(json, null, '    '), line by line
Stringify(json) ==
  IF json.version = ""
    THEN <<"{", "    \"name\": \"" \o json.name \o "\"", "}">>
    ELSE <<"{", "    \"name\": \"" \o json.name \o "\",",
           "    \"version\": \"" \o json.version \o "\"", "}">>

\* Names and versions of manifest records: those of a plain and of a scoped
\* package, with version strings as the registry documents may carry them
\* (handleVersion checks only that the version is not empty)
KeyNames == {PackageName, "@freajs/mirror"}
KeyVersions == {"1.0.0", "1.0.1", ".", ".."}

\* path.join on the names and versions of the model, computed once
Filenames ==
  [parts \in {<<name, version, "index.json">> :
                name \in KeyNames \cup {""}, version \in KeyVersions \cup {""}}
              \cup {<<name, "index.json">> : name \in KeyNames \cup {""}}
     |-> PathJoin(parts)]

\* const filename = path.join(...) of handleVersion and of uploadIndex
VersionKey(v) == Filenames[<<v.json.name, v.version, "index.json">>]
IndexKey(json) == Filenames[<<json.name, "index.json">>]

ManifestKeys ==
  {PathJoin(<<PackageName, "index.json">>),
   PathJoin(<<PackageName, "1.0.0", "index.json">>),
   PathJoin(<<PackageName, "1.0.1", "index.json">>)}

\* Messages on the packages topic
PackageMessages == [data : {"", Base64Encode(PackageName)}]

\* The validation of the manifest in registry.get's callback
ShapeOk(r, manifest) ==
  IF r = "unnamed/part_003"
    THEN /\ manifest.json.present
         /\ manifest.versions.kind # "missing"
         /\ manifest.versions.kind = "array"
         /\ manifest.tarballs.kind # "missing"
         /\ manifest.tarballs.kind = "array"
    ELSE /\ manifest.versions.kind # "missing"
         /\ manifest.tarballs.kind # "missing"

\* mutant: handleTarball checks the path only
TarballOkPathOnly(t) == t.path # ""

\* The checks at the head of handleTarball, handleVersion and uploadIndex
TarballOk(t) == t.path # "" /\ t.shasum # "" /\ t.tarball # ""
VersionOk(v) == v.json.present /\ v.json.name # "" /\ v.version # ""
IndexOk(json) == json.present /\ json.name # ""

\* The keys of handleVersion and uploadIndex as a function of the record
NoKey == [kind |-> "none", name |-> "", version |-> "", key |-> ""]
NoKeys == [slot \in 1..2 |-> NoKey]

\* handleVersion up to bucket.file(filename)
HandleVersionKey(slot, v) ==
  /\ UNCHANGED otherThanManifestKeys
  /\ VersionOk(v)
  /\ keyed' = [keyed EXCEPT ![slot] =
                 [kind |-> "version", name |-> v.json.name,
                  version |-> v.version, key |-> VersionKey(v)]]

\* uploadIndex up to bucket.file(filename)
UploadIndexKey(slot, json) ==
  /\ UNCHANGED otherThanManifestKeys
  /\ IndexOk(json)
  /\ keyed' = [keyed EXCEPT ![slot] =
                 [kind |-> "index", name |-> json.name,
                  version |-> "", key |-> IndexKey(json)]]

NextManifestKeys ==
  \/ \E slot \in 1..2, name \in KeyNames, version \in KeyVersions :
       HandleVersionKey(slot, [json |-> Json(name, version), version |-> version])
  \/ \E slot \in 1..2, name \in KeyNames : UploadIndexKey(slot, Json(name, ""))

\* mutant: the attributes are filled in crosswise
ArtifactTaskCrossed(t) ==
  [data |-> Base64Encode(t.tarball),
   attributes |-> Attributes(t.shasum, t.path)]

\* topic.publish(url, msgAttributes, ...) as the tarballs function receives it
ArtifactTask(t) ==
  [data |-> Base64Encode(t.tarball),
   attributes |-> Attributes(t.path, t.shasum)]

\* async.each / async.parallel: the join of a group of callbacks
NewJoin == [completed |-> 0, fired |-> FALSE]
JoinAdd(join, len, err) ==
  IF err THEN [join EXCEPT !.fired = TRUE]
  ELSE [completed |-> join.completed + 1,
        fired |-> join.fired \/ join.completed + 1 = len]
Fires(join, join2) == ~join.fired /\ join2.fired

IdleDispatch ==
  [phase |-> "idle", data |-> "", manifest |-> NoManifest,
   tar |-> <<>>, ver |-> <<>>, idx |-> "none",
   eachT |-> NewJoin, eachV |-> NewJoin, par |-> NewJoin,
   resolves |-> 0, resolved |-> "none", calls |-> 0, cbCalls |-> 0,
   errs |-> 0, tarErr |-> <<>>, verErr |-> <<>>, idxErr |-> 0]

InitDispatcher ==
  /\ dInv = IdleDispatch
  /\ tarTopic = <<>>

\* callback(): once(log.callback(cb)) flushes the logs and then invokes cb;
\* in packages/index.js callback is once(cb) and invokes cb at once
Callback(inv) ==
  IF rev = "packages/index.js"
    THEN [inv EXCEPT !.phase = "done", !.calls = @ + 1, !.cbCalls = @ + 1]
    ELSE [inv EXCEPT !.phase = "flushing", !.calls = @ + 1]

\* mutant: the handler asks the resolver whatever the length of data
PackagesNoCheck(message) ==
  /\ UNCHANGED otherThanDispatcher
  /\ dInv.phase = "idle"
  /\ dInv' = [dInv EXCEPT !.data = Base64Decode(message.data),
                          !.phase = "resolving", !.resolves = @ + 1]
  /\ UNCHANGED <<rev, tarTopic, bucket>>

\* exports.packages(message, _, cb) up to registry.get(data, ...)
Packages(message) ==
  /\ UNCHANGED otherThanDispatcher
  /\ dInv.phase = "idle"
  /\ LET data == Base64Decode(message.data)
         inv == [dInv EXCEPT !.data = data]
     IN IF data = ""
          THEN dInv' = Callback([inv EXCEPT !.errs = @ + 1])
          ELSE dInv' = [inv EXCEPT !.phase = "resolving", !.resolves = @ + 1]
  /\ UNCHANGED <<rev, tarTopic, bucket>>

\* registry.get calls back with an error
RegistryGetFailed ==
  /\ UNCHANGED otherThanDispatcher
  /\ dInv.phase = "resolving"
  /\ dInv' = Callback([dInv EXCEPT !.resolved = "failed", !.errs = @ + 1])
  /\ UNCHANGED <<rev, tarTopic, bucket>>

\* mutant: handleTarball gives up at the first malformed entry, so the
\* entries after it are never looked at
TarballStatusStopAtBad(items) ==
  [k \in DOMAIN items |->
     IF \E j \in 1..k : ~TarballOk(items[j]) THEN "none" ELSE "pending"]

\* each(manifest.tarballs, handleTarball): every entry is handed to
\* handleTarball, which skips a malformed one and publishes the others
TarballStatus(items) ==
  [k \in DOMAIN items |-> IF TarballOk(items[k]) THEN "pending" ELSE "skipped"]

\* each(manifest.versions, handleVersion)
VersionStatus(items) ==
  [k \in DOMAIN items |-> IF VersionOk(items[k]) THEN "pending" ELSE "skipped"]

Count(status, st) == Cardinality({k \in DOMAIN status : status[k] = st})

\* The join of an each() after the synchronous pass over its collection
EachStarted(status) ==
  [completed |-> Count(status, "skipped"),
   fired |-> Count(status, "skipped") = Len(status)]

\* log.error(...) of the checks at the head of handleTarball and
\* handleVersion: one error log entry for every entry that is skipped
SkipLogged(status) ==
  [k \in DOMAIN status |-> IF status[k] = "skipped" THEN 1 ELSE 0]

\* The error log entries the callback of an upload writes: packages/index.js
\* calls log.error whatever e is, the newer handler only if (e)
UploadLogged(ok) ==
  IF rev = "packages/index.js" THEN 1
  ELSE IF ok THEN 0 ELSE 1

\* parallel([...]) on a valid manifest: the three tasks start in the same
\* turn, and so does every publish and every upload
FanOut(inv, manifest) ==
  LET tar == TarballStatus(manifest.tarballs.items)
      ver == VersionStatus(manifest.versions.items)
      idx == IF IndexOk(manifest.json) THEN "pending" ELSE "skipped"
      eachT == EachStarted(tar)
      eachV == EachStarted(ver)
      n == (IF eachT.fired THEN 1 ELSE 0) + (IF eachV.fired THEN 1 ELSE 0)
             + (IF idx = "skipped" THEN 1 ELSE 0)
      started == [inv EXCEPT !.phase = "fanout", !.manifest = manifest,
                             !.tar = tar, !.ver = ver, !.idx = idx,
                             !.tarErr = SkipLogged(tar),
                             !.verErr = SkipLogged(ver),
                             !.idxErr = IF idx = "skipped" THEN 1 ELSE 0,
                             !.eachT = eachT, !.eachV = eachV,
                             !.par = [completed |-> n, fired |-> n = 3]]
  IN IF n = 3 THEN Callback(started) ELSE started

\* registry.get calls back with a manifest: validate it, then fan out
RegistryGot ==
  /\ UNCHANGED otherThanDispatcher
  /\ dInv.phase = "resolving"
  /\ \E manifest \in Manifests :
       IF ShapeOk(rev, manifest)
         THEN dInv' = FanOut([dInv EXCEPT !.resolved = "got"], manifest)
         ELSE dInv' = Callback([dInv EXCEPT !.resolved = "got",
                                            !.manifest = manifest,
                                            !.errs = @ + 1])
  /\ UNCHANGED <<rev, tarTopic, bucket>>

\* One callback of a publish or an upload reaches its each() and, through it,
\* parallel(); callback() runs when parallel's join fires
Settle(inv, which, err) ==
  LET eachT == IF which = "tarball"
                 THEN JoinAdd(inv.eachT, Len(inv.tar), err) ELSE inv.eachT
      eachV == IF which = "version"
                 THEN JoinAdd(inv.eachV, Len(inv.ver), err) ELSE inv.eachV
      taskDone == \/ which = "tarball" /\ Fires(inv.eachT, eachT)
                  \/ which = "version" /\ Fires(inv.eachV, eachV)
                  \/ which = "index"
      par == IF taskDone THEN JoinAdd(inv.par, 3, err) ELSE inv.par
      joined == [inv EXCEPT !.eachT = eachT, !.eachV = eachV, !.par = par]
  IN IF Fires(inv.par, par) THEN Callback(joined) ELSE joined

\* mutant: the publish error is handed on to each(), which ends early
TarballPublishedErr(k, ok) ==
  /\ UNCHANGED otherThanDispatcher
  /\ k \in DOMAIN dInv.tar
  /\ dInv.tar[k] = "pending"
  /\ tarTopic' = IF ok
                   THEN Append(tarTopic, ArtifactTask(dInv.manifest.tarballs.items[k]))
                   ELSE tarTopic
  /\ dInv' = Settle([dInv EXCEPT !.tar[k] = IF ok THEN "ok" ELSE "failed",
                                  !.tarErr[k] = IF ok THEN @ ELSE @ + 1],
                    "tarball", ~ok)
  /\ UNCHANGED <<rev, bucket>>

\* topic.publish(url, msgAttributes, (e, msgId) => ...): if (e) log.error,
\* then callback()
TarballPublished(k, ok) ==
  /\ UNCHANGED otherThanDispatcher
  /\ k \in DOMAIN dInv.tar
  /\ dInv.tar[k] = "pending"
  /\ tarTopic' = IF ok
                   THEN Append(tarTopic, ArtifactTask(dInv.manifest.tarballs.items[k]))
                   ELSE tarTopic
  /\ dInv' = Settle([dInv EXCEPT !.tar[k] = IF ok THEN "ok" ELSE "failed",
                                  !.tarErr[k] = IF ok THEN @ ELSE @ + 1],
                    "tarball", FALSE)
  /\ UNCHANGED <<rev, bucket>>

\* mutant: the upload adds to the object under the key instead of replacing it
VersionUploadedAppend(k, ok) ==
  /\ UNCHANGED otherThanDispatcher
  /\ k \in DOMAIN dInv.ver
  /\ dInv.ver[k] = "pending"
  /\ LET v == dInv.manifest.versions.items[k] IN
       bucket' = IF ok
                   THEN [bucket EXCEPT ![VersionKey(v)] =
                           Object(bucket[VersionKey(v)].bytes \o Stringify(v.json),
                                  "packages")]
                   ELSE bucket
  /\ dInv' = Settle([dInv EXCEPT !.ver[k] = IF ok THEN "ok" ELSE "failed",
                                  !.verErr[k] = @ + UploadLogged(ok)],
                    "version", FALSE)
  /\ UNCHANGED <<rev, tarTopic>>

\* handleVersion's miss.pipe callback: the upload of the version manifest
\* has finished or failed
VersionUploaded(k, ok) ==
  /\ UNCHANGED otherThanDispatcher
  /\ k \in DOMAIN dInv.ver
  /\ dInv.ver[k] = "pending"
  /\ LET v == dInv.manifest.versions.items[k] IN
       bucket' = IF ok
                   THEN [bucket EXCEPT ![VersionKey(v)] =
                           Object(Stringify(v.json), "packages")]
                   ELSE bucket
  /\ dInv' = Settle([dInv EXCEPT !.ver[k] = IF ok THEN "ok" ELSE "failed",
                                  !.verErr[k] = @ + UploadLogged(ok)],
                    "version", FALSE)
  /\ UNCHANGED <<rev, tarTopic>>

\* uploadIndex's miss.pipe callback
IndexUploaded(ok) ==
  /\ UNCHANGED otherThanDispatcher
  /\ dInv.idx = "pending"
  /\ bucket' = IF ok
                 THEN [bucket EXCEPT ![IndexKey(dInv.manifest.json)] =
                         Object(Stringify(dInv.manifest.json), "packages")]
                 ELSE bucket
  /\ dInv' = Settle([dInv EXCEPT !.idx = IF ok THEN "ok" ELSE "failed",
                                  !.idxErr = @ + UploadLogged(ok)],
                    "index", FALSE)
  /\ UNCHANGED <<rev, tarTopic>>

\* log.callback(cb): the logs are flushed and cb is invoked
PackagesFlushed ==
  /\ UNCHANGED otherThanDispatcher
  /\ dInv.phase = "flushing"
  /\ dInv' = [dInv EXCEPT !.phase = "done", !.cbCalls = @ + 1]
  /\ UNCHANGED <<rev, tarTopic, bucket>>

NextDispatcher ==
  \/ \E message \in PackageMessages : Packages(message)
  \/ RegistryGetFailed
  \/ RegistryGot
  \/ \E k \in 1..MaxTarballs, ok \in BOOLEAN : TarballPublished(k, ok)
  \/ \E k \in 1..MaxVersions, ok \in BOOLEAN : VersionUploaded(k, ok)
  \/ \E ok \in BOOLEAN : IndexUploaded(ok)
  \/ PackagesFlushed

\* ------------------------------------------------------------------------
\* Specifications: one per component, the others at rest
\* ------------------------------------------------------------------------
InitFollower ==
  /\ keyed = NoKeys
  /\ \E doc \in StoredDocs : FollowerLoaded(doc)
  /\ InitReplicator
  /\ InitDispatcher
  /\ rev = "unnamed/part_003"
  /\ EmptyBucket(Paths)

InitTarballs ==
  /\ keyed = NoKeys
  /\ FollowerLoaded([exists |-> FALSE, seq |-> 0])
  /\ InitReplicator
  /\ InitDispatcher
  /\ rev = "unnamed/part_003"
  /\ EmptyBucket(TarballKeys)

InitPackages ==
  /\ keyed = NoKeys
  /\ FollowerLoaded([exists |-> FALSE, seq |-> 0])
  /\ InitReplicator
  /\ InitDispatcher
  /\ rev \in Revisions
  /\ EmptyBucket(ManifestKeys)

SpecFollower == InitFollower /\ [][NextFollower]_vars

\* The Follower with the scheduling the runtime gives it: the interval timer
\* setInterval(syncSeq, 5000) keeps firing, a doc.set() that is in flight
\* settles, and of the writes issued again and again one reaches Firestore
FairFollower ==
  /\ WF_vars(SyncSeq)
  /\ WF_vars(\E i \in 1..2 : DocSetThen(i) \/ DocSetCatch(i))
  /\ SF_vars(\E i \in 1..2 : DocSetApply(i))

\* The checkpoint at the start of the feed: no document, or the cursor 0
CheckpointDocs ==
  {[exists |-> FALSE, seq |-> 0], [exists |-> TRUE, seq |-> 0]}

InitCheckpoint ==
  /\ keyed = NoKeys
  /\ \E doc \in CheckpointDocs : FollowerLoaded(doc)
  /\ InitReplicator
  /\ InitDispatcher
  /\ rev = "unnamed/part_003"
  /\ EmptyBucket(Paths)

SpecFollowerFair == InitCheckpoint /\ [][NextFollower]_vars /\ FairFollower

SpecReplicator == InitTarballs /\ [][NextReplicator]_vars

SpecDispatcher == InitPackages /\ [][NextDispatcher]_vars

InitManifestKeys ==
  /\ keyed = NoKeys
  /\ FollowerLoaded([exists |-> FALSE, seq |-> 0])
  /\ InitReplicator
  /\ InitDispatcher
  /\ rev = "unnamed/part_003"
  /\ EmptyBucket(ManifestKeys)

SpecManifestKeys == InitManifestKeys /\ [][NextManifestKeys]_vars

\* What the packages function writes under key: the serialization of the
\* index record or of the version record that key belongs to
WrittenAt(key) ==
  {Stringify(json) : json \in {j \in IndexRecords : IndexOk(j) /\ IndexKey(j) = key}}
  \cup
  {Stringify(v.json) : v \in {w \in VersionRecords : VersionOk(w) /\ VersionKey(w) = key}}

\* The bucket as earlier deliveries of the message have left it: every
\* manifest of the package written
EarlierDelivery ==
  bucket = [key \in ManifestKeys |->
              Object(CHOOSE content \in WrittenAt(key) : TRUE, "earlier delivery")]

\* The packages function on a message that is delivered for the first time
\* or delivered again
InitRedelivery ==
  /\ keyed = NoKeys
  /\ FollowerLoaded([exists |-> FALSE, seq |-> 0])
  /\ InitReplicator
  /\ InitDispatcher
  /\ rev \in Revisions
  /\ EmptyBucket(ManifestKeys) \/ EarlierDelivery

SpecRedelivery == InitRedelivery /\ [][NextDispatcher]_vars

\* The two Cloud Functions side by side. Each run exercises one of them: a
\* tarballs invocation starts while no packages invocation has, and the other
\* way round. The tarballs function, which is the same beside either revision
\* of packages, runs beside the current one.
InitHandlers ==
  /\ keyed = NoKeys
  /\ FollowerLoaded([exists |-> FALSE, seq |-> 0])
  /\ InitReplicator
  /\ InitDispatcher
  /\ rev \in Revisions
  /\ EmptyBucket(TarballKeys \cup ManifestKeys)

HandlersTarballs(i, message, fileThrows) ==
  /\ dInv.phase = "idle"
  /\ rev = "unnamed/part_003"
  /\ Tarballs(i, message, fileThrows)

HandlersPackages(message) ==
  /\ InitReplicator
  /\ Packages(message)

NextHandlers ==
  \/ \E i \in Invocations, message \in TarballMessages, fileThrows \in BOOLEAN :
       HandlersTarballs(i, message, fileThrows)
  \/ \E i \in Invocations, chunk \in Chunks : IntegrityCheckHandler(i, chunk)
  \/ \E i \in Invocations : WriteFinish(i)
  \/ \E i \in Invocations, partial \in BOOLEAN : PipeError(i, partial)
  \/ \E i \in Invocations : PipeDone(i)
  \/ \E i \in Invocations : DeleteOk(i)
  \/ \E i \in Invocations : DeleteFail(i)
  \/ \E i \in Invocations : Flushed(i)
  \/ \E message \in PackageMessages : HandlersPackages(message)
  \/ RegistryGetFailed
  \/ RegistryGot
  \/ \E k \in 1..MaxTarballs, ok \in BOOLEAN : TarballPublished(k, ok)
  \/ \E k \in 1..MaxVersions, ok \in BOOLEAN : VersionUploaded(k, ok)
  \/ \E ok \in BOOLEAN : IndexUploaded(ok)
  \/ PackagesFlushed

SpecHandlers == InitHandlers /\ [][NextHandlers]_vars

\* ------------------------------------------------------------------------
\* Follower: properties
\* ------------------------------------------------------------------------
\* The state of the Follower apart from the step history
fstate == <<fPhase, seq, syncingSeq, docStore, getReq, setReqs, subscribed,
            since, rlQueue, rlCount, rlTimers, pubsInFlight>>

\* A change the Follower can hand off: it has an id and a sequence number
Usable(change) == change.present /\ change.id # "" /\ change.seq # Undef

\* C3: every value written to the Checkpoint Store is greater than or equal
\* to the value stored there before, the value found at startup included:
\* the persisted cursor never regresses.
C3_PersistedCursorNeverRegresses ==
  [][(docStore.exists /\ docStore'.exists) => docStore'.seq >= docStore.seq]_vars

\* C4: once the startup cursor is loaded the in-memory cursor never
\* decreases, and when the publish callback of a change with sequence s has
\* run, on success or on failure, seq is the maximum of its old value and s.
C4_CursorIsRunningMax ==
  [][fPhase = "following" =>
       /\ seq' >= seq
       /\ (lastOp' = "topicPublished" /\ lastPub'.seq # Undef)
            => seq' = Max(seq, lastPub'.seq)]_vars

\* C4 witness: a publish callback of an older change ran after the cursor had
\* moved past it, and the cursor stayed where it was
C4_Witness ==
  /\ lastOp = "topicPublished"
  /\ lastPub.seq # Undef
  /\ lastPub.seq < seq
  /\ seq > since

\* C5: whenever the Checkpoint Store holds c, every usable change delivered
\* with a sequence above the startup cursor and at most c has been handed
\* off: its publish to the packages topic has completed successfully.
C5_PersistedImpliesHandedOff ==
  (subscribed /\ docStore.exists) =>
    \A change \in delivered :
      (Usable(change) /\ change.seq > since /\ change.seq <= docStore.seq)
        => change \in handedOff

\* C6: at most one doc.set is outstanding, and a timer tick that arrives
\* while a write is in flight issues no write and changes nothing.
C6_OneWriteInFlight ==
  [][/\ Len(setReqs') <= 1
     /\ (lastOp' = "syncSeq" /\ syncingSeq) => UNCHANGED fstate]_vars

\* C6 witness: a tick found a write in flight although the cursor had moved
\* on since that write was issued, and issued nothing
C6_Witness ==
  /\ lastOp = "syncSeq"
  /\ syncingSeq
  /\ Len(setReqs) = 1
  /\ seq > setReqs[1].value

\* C7: the Follower subscribes only after the initial read returned an
\* existing document, with since equal to the value read; when the read
\* fails or the document does not exist the process exits and never
\* subscribes nor publishes.
C7_SubscribeOnlyAfterLoad ==
  /\ subscribed =>
       /\ getReq.state = "done"
       /\ getReq.exists
       /\ since = getReq.seq
  /\ (getReq.state = "failed" \/ (getReq.state = "done" /\ ~getReq.exists)) =>
       /\ fPhase = "exited"
       /\ ~subscribed
       /\ nPublish = 0
       /\ nDeliv = 0
  /\ fPhase # "following" => (nPublish = 0 /\ nDeliv = 0)

\* C7 witness: the read returned "document does not exist" and the process
\* has exited
C7_Witness ==
  /\ fPhase = "exited"
  /\ getReq.state = "done"
  /\ ~getReq.exists
  /\ lastOp = "docGetThen"

\* C19: handleChange is called only through the rate limiter, so at any
\* moment the calls of handleChange made within the last interval are at
\* most the calls admitted per interval, however many changes the Change
\* Source has delivered.
C19_HandleChangeRateLimited ==
  /\ Len(hcAges) <= RateLimitCount
  /\ nPublish <= nDeliv - Len(rlQueue)

\* C19 witness: the Change Source has delivered more changes than one
\* interval admits; the interval is used up and the excess waits in the queue
C19_Witness ==
  /\ nDeliv > RateLimitCount
  /\ Len(hcAges) = RateLimitCount
  /\ rlQueue # <<>>
  /\ rlCount = 0

\* C21: the in-flight guard syncingSeq is released when a doc.set() settles,
\* by .catch as well as by .then, and after a failed write the next tick of
\* the timer issues a write again; when the timer keeps firing, writes settle
\* and writes issued again and again reach the store, a cursor that has
\* stopped changing is eventually the value the Checkpoint Store holds.
C21_GuardReleasedAndCursorPersisted ==
  /\ [](lastOp \in {"docSetThen", "docSetCatch"} => ~syncingSeq)
  /\ [][(lastOp = "docSetCatch" /\ lastOp' = "syncSeq")
          => Len(setReqs') = Len(setReqs) + 1]_vars
  /\ \A v \in 0..MaxSeq :
       <>[](fPhase = "following" /\ seq = v)
         => <>[](docStore.exists /\ docStore.seq = v)

\* C21 witness: a write has just failed while the store is behind the cursor;
\* the guard is free and no write is outstanding
C21_Witness ==
  /\ fPhase = "following"
  /\ lastOp = "docSetCatch"
  /\ ~syncingSeq
  /\ setReqs = <<>>
  /\ seq > 0
  /\ docStore.seq < seq

\* A delivery handleChange drops: !change || !change.id
Dropped(change) == ~change.present \/ change.id = ""

\* C22: a delivery without a change object or without an id is dropped. No
\* publish is ever in flight or completed for such a delivery; when
\* handleChange takes one from the rate limiter's queue, nothing is published
\* and the cursor stays; and as long as all deliveries were of this kind no
\* publish has been issued and the cursor is the one found at startup,
\* whatever sequence numbers the deliveries carried.
C22_ChangeWithoutIdDropped ==
  /\ [](/\ \A n \in DOMAIN pubsInFlight : ~Dropped(pubsInFlight[n])
        /\ \A change \in handedOff : ~Dropped(change)
        /\ lastOp = "topicPublished" => ~Dropped(lastPub))
  /\ []((fPhase = "following" /\ \A change \in delivered : Dropped(change))
          => (nPublish = 0 /\ pubsInFlight = <<>> /\ seq = since))
  /\ [][(rlQueue # <<>> /\ rlQueue' = Tail(rlQueue) /\ Dropped(Head(rlQueue)))
          => (nPublish' = nPublish /\ pubsInFlight' = pubsInFlight /\ seq' = seq)]_vars

\* C22 witness: a change without id and with a sequence number above the
\* cursor has been delivered and handleChange has been called with it
C22_Witness ==
  /\ fPhase = "following"
  /\ delivered = {[present |-> TRUE, id |-> "", seq |-> 1]}
  /\ rlQueue = <<>>
  /\ hcAges # <<>>
  /\ seq = 0
  /\ nPublish = 0

\* ------------------------------------------------------------------------
\* Replicator: properties
\* ------------------------------------------------------------------------
Has(i, ev) == \E n \in DOMAIN rInv[i].events : rInv[i].events[n] = ev

\* The place of the first ev among the events of invocation i
Pos(i, ev) == CHOOSE n \in DOMAIN rInv[i].events :
                /\ rInv[i].events[n] = ev
                /\ \A m \in 1..(n - 1) : rInv[i].events[m] # ev

Before(i, ev1, ev2) == Has(i, ev1) /\ Has(i, ev2) /\ Pos(i, ev1) < Pos(i, ev2)

\* The step in which the host's cb is invoked for invocation i
Completes(i) == rInv[i].phase = "flushing" /\ rInv'[i].phase = "done"

\* The pipe finished without transport error and the SHA-1 of the bytes the
\* source produced is not / is the shasum of the task
Mismatched(i) == Has(i, "finish") /\ Sha1Hex(rInv[i].fetched) # rInv[i].shasum
Matched(i) == Has(i, "finish") /\ Sha1Hex(rInv[i].fetched) = rInv[i].shasum

\* A delete that succeeds removes the object under the destination key of
\* the invocation and touches no other key
DeleteHitsOwnKey(i) ==
  (rInv[i].phase = "deleting" /\ rInv'[i].phase = "flushing" /\ bucket' # bucket)
    => bucket' = [bucket EXCEPT ![rInv[i].path] = NoObject]

\* On a mismatch the delete is issued after the write has finished, and
\* callback runs only after the delete has settled
DeleteThenCallback(i) ==
  /\ Before(i, "finish", "delete")
  /\ \/ Before(i, "delete", "delete ok") /\ Before(i, "delete ok", "callback")
     \/ Before(i, "delete", "delete failed") /\ Before(i, "delete failed", "callback")

\* C1 as stated: on a digest mismatch a delete of exactly the destination key
\* is issued after the write has finished, the completion callback fires only
\* after that delete has settled, and if the delete succeeded the destination
\* key does not exist when the invocation completes.
C1_MismatchDeletesKey ==
  [][\A i \in Invocations :
       /\ DeleteHitsOwnKey(i)
       /\ (Completes(i) /\ Mismatched(i)) =>
            /\ DeleteThenCallback(i)
            /\ Has(i, "delete ok") => ~bucket'[rInv[i].path].exists]_vars

\* C1 amended: as C1, but what is gone when the invocation completes is the
\* object this invocation wrote: the destination key does not exist unless
\* another invocation has finished a write to it after the delete.
C1_MismatchDeletesOwnObject ==
  [][\A i \in Invocations :
       /\ DeleteHitsOwnKey(i)
       /\ (Completes(i) /\ Mismatched(i)) =>
            /\ DeleteThenCallback(i)
            /\ Has(i, "delete ok") =>
                 \/ ~bucket'[rInv[i].path].exists
                 \/ bucket'[rInv[i].path].writer # i]_vars

\* C1 witness: an invocation whose bytes failed the check has completed after
\* a successful delete, and its destination key is empty
C1_Witness ==
  \E i \in Invocations :
    /\ rInv[i].phase = "done"
    /\ Mismatched(i)
    /\ Has(i, "delete ok")
    /\ rInv[i].fetched # <<>>
    /\ ~bucket[rInv[i].path].exists

\* C2: when the source bytes digest to the shasum and the stream completed
\* without transport error, then at completion the destination key holds
\* exactly the source bytes and the task ends as successfully handled (no
\* error logged, no delete).
C2_MatchKeepsBytes ==
  [][\A i \in Invocations :
       (Completes(i) /\ Matched(i)) =>
         /\ bucket'[rInv[i].path].exists
         /\ bucket'[rInv[i].path].bytes = rInv[i].fetched
         /\ ~Has(i, "delete")
         /\ ~Has(i, "error: failed integrity check")]_vars

\* How often ev occurs among the events of invocation i
Times(i, ev) ==
  Cardinality({n \in DOMAIN rInv[i].events : rInv[i].events[n] = ev})

\* Any step of invocation i
StepOf(i) ==
  \/ \E chunk \in Chunks : IntegrityCheckHandler(i, chunk)
  \/ WriteFinish(i)
  \/ \E partial \in BOOLEAN : PipeError(i, partial)
  \/ PipeDone(i)
  \/ DeleteOk(i)
  \/ DeleteFail(i)
  \/ Flushed(i)

\* Invocation i has been started
Started(i) == rInv[i].phase # "idle"

\* callback and the host's cb have run at most once each for invocation i, cb
\* exactly once when the invocation is over, and an invocation that is not
\* over can go on
OnceReplicator(i) ==
  /\ Times(i, "callback") <= 1
  /\ Times(i, "cb") <= 1
  /\ rInv[i].phase = "done" <=> Times(i, "cb") = 1
  /\ rInv[i].phase # "done" => ENABLED StepOf(i)

OnceDispatcher ==
  /\ dInv.calls <= 1
  /\ dInv.cbCalls <= 1
  /\ dInv.phase = "done" <=> dInv.cbCalls = 1
  /\ dInv.phase # "done" => ENABLED NextDispatcher

\* C11: every tarballs invocation and every packages invocation invokes the
\* host's cb exactly once, on every path: it never ends without having
\* invoked cb, and never invokes callback or cb a second time.
C11_CallbackExactlyOnce ==
  /\ \A i \in Invocations : Started(i) => OnceReplicator(i)
  /\ dInv.phase # "idle" => OnceDispatcher

\* A message that lacks its data, its attributes map, or its path or shasum
Incomplete(i) ==
  \/ ~rInv[i].attrs
  \/ rInv[i].url = ""
  \/ rInv[i].path = ""
  \/ rInv[i].shasum = ""

\* C12: on a message lacking data, the attributes map, or the path or shasum
\* attribute, the tarballs handler raises no unhandled failure and ends the
\* unit of work by invoking cb exactly once.
C12_IncompleteMessageHandled ==
  \A i \in Invocations :
    (Started(i) /\ Incomplete(i)) =>
      /\ rInv[i].phase # "thrown"
      /\ OnceReplicator(i)

\* Invocation i has opened neither the download nor the upload, has written
\* nothing and has issued no delete
Untouched(i) ==
  /\ ~Has(i, "open")
  /\ ~Has(i, "finish")
  /\ ~Has(i, "delete")
  /\ rInv[i].fetched = <<>>
  /\ \A key \in DOMAIN bucket : bucket[key].exists => bucket[key].writer # i

\* C23: a tarballs invocation whose message has no data or empty data ends
\* in the url check: no download and no upload is opened, nothing is written
\* or deleted, and cb is invoked once.
C23_EmptyUrlHandledInValidate ==
  \A i \in Invocations :
    (Started(i) /\ rInv[i].url = "") =>
      /\ Untouched(i)
      /\ rInv[i].phase # "thrown"
      /\ OnceReplicator(i)

\* C28: every tarballs invocation ends by invoking the host's cb, once and
\* without an error argument, whatever happened on the way: empty input, a
\* failed download or upload, a failed integrity check, a failed delete.
C28_CallbackWithoutError ==
  \A i \in Invocations :
    Started(i) =>
      /\ rInv[i].phase # "thrown"
      /\ Times(i, "cb") <= 1
      /\ rInv[i].phase = "done" => (Times(i, "cb") = 1 /\ ~rInv[i].cbErr)


\* specified over: hex in lower case
UpperHexDigits == <<"0", "1", "2", "3", "4", "5", "6", "7",
                    "8", "9", "A", "B", "C", "D", "E", "F">>
Normalize(digest) ==
  IF \E k \in DOMAIN UpperHexDigits : UpperHexDigits[k] = digest
    THEN HexDigits[CHOOSE k \in DOMAIN UpperHexDigits : UpperHexDigits[k] = digest]
    ELSE digest

\* The expected digest of invocation i denotes the digest of its bytes
SameDigest(i) == Normalize(rInv[i].shasum) = Sha1Hex(rInv[i].fetched)

\* C13: an invocation issues at most one delete, and only after its stream
\* finished without transport error with a digest that does not match; after
\* a transport error it issues no delete, leaves the bucket as it is and
\* completes as handled.
C13_DeleteOnlyOnMismatch ==
  [][\A i \in Invocations :
       /\ Times(i, "delete")' <= 1
       /\ Has(i, "delete")' => (Has(i, "finish")' /\ ~SameDigest(i)')
       /\ Has(i, "error: failed to download/upload") =>
            /\ ~Has(i, "delete")'
            /\ rInv'[i] # rInv[i] => (bucket' = bucket /\ Completes(i))]_vars

\* C14: when the cleanup delete fails the failure is logged, and the
\* invocation ends as it does when the delete succeeds: callback once, cb
\* once, the bucket left alone.
C14_DeleteFailureLogged ==
  \A i \in Invocations :
    Has(i, "delete failed") =>
      /\ Has(i, "error: failed to delete")
      /\ OnceReplicator(i)
      /\ Before(i, "delete failed", "callback")

\* C15: an expected shasum that denotes the computed digest in another letter
\* case is a match: the object is kept and no delete is issued.
C15_ComparisonNormalized ==
  \A i \in Invocations :
    (Has(i, "finish") /\ SameDigest(i)) =>
      /\ ~Has(i, "delete")
      /\ ~Has(i, "error: failed integrity check")

\* The invocation finished its write and its verification succeeded
Verified(i) ==
  /\ Has(i, "finish")
  /\ Has(i, "callback")
  /\ ~Has(i, "error: failed integrity check")

\* C16: when two invocations for the same destination key have both finished
\* their write and are both over, and at least one of them verified its
\* bytes, the key holds the bytes of the verified invocation that wrote last.
C16_LastVerifiedWriterWins ==
  \A i, j \in Invocations :
    (/\ i # j
     /\ rInv[i].phase = "done" /\ rInv[j].phase = "done"
     /\ rInv[i].path \in Paths
     /\ rInv[i].path = rInv[j].path
     /\ Has(j, "finish")
     /\ Verified(i)
     /\ Verified(j) => rInv[i].wrote > rInv[j].wrote) =>
      /\ bucket[rInv[i].path].exists
      /\ bucket[rInv[i].path].bytes = rInv[i].fetched

\* C20: every chunk the digest stream receives goes on to the upload
\* unchanged and in order, and the digest read at the end is the digest of
\* the chunks in the order they came: what the upload was given is what the
\* download produced, and the hash is the SHA-1 of it.
C20_DigestStreamForwards ==
  \A i \in Invocations :
    /\ rInv[i].sunk = rInv[i].fetched
    /\ HashHex(rInv[i].hash) = Sha1Hex(rInv[i].sunk)
    /\ (rInv[i].phase = "written" /\ bucket[rInv[i].path].writer = i) =>
         bucket[rInv[i].path].bytes = rInv[i].fetched

\* C20 witness: two different chunks have passed through and the object
\* written holds them in the order they came
C20_Witness ==
  \E i \in Invocations :
    /\ rInv[i].phase = "written"
    /\ rInv[i].nChunks = 2
    /\ rInv[i].fetched = <<0, 1, 0>>
    /\ bucket[rInv[i].path] = Object(<<0, 1, 0>>, i)

\* ------------------------------------------------------------------------
\* Dispatcher: properties
\* ------------------------------------------------------------------------
\* registry.get has called back with a manifest that passed the validation
Fanned ==
  /\ dInv.phase \in {"fanout", "flushing", "done"}
  /\ dInv.manifest # NoManifest
  /\ ShapeOk(rev, dInv.manifest)

\* A publish or an upload was started for an entry with this status
Attempted(st) == st \in {"pending", "ok", "failed"}

Outstanding ==
  \/ \E k \in DOMAIN dInv.tar : dInv.tar[k] = "pending"
  \/ \E k \in DOMAIN dInv.ver : dInv.ver[k] = "pending"
  \/ dInv.idx = "pending"

\* C8: on a manifest that passed validation every well-formed tarball entry
\* has a publish attempt, every well-formed version record and the named
\* index record a write attempt, whichever of the others have failed.
C8_EveryObligationAttempted ==
  Fanned =>
    /\ DOMAIN dInv.tar = DOMAIN dInv.manifest.tarballs.items
    /\ DOMAIN dInv.ver = DOMAIN dInv.manifest.versions.items
    /\ \A k \in DOMAIN dInv.manifest.tarballs.items :
         TarballOk(dInv.manifest.tarballs.items[k]) => Attempted(dInv.tar[k])
    /\ \A k \in DOMAIN dInv.manifest.versions.items :
         VersionOk(dInv.manifest.versions.items[k]) => Attempted(dInv.ver[k])
    /\ IndexOk(dInv.manifest.json) => Attempted(dInv.idx)

\* C8 witness: an invocation is over in which the first publish and the
\* version write failed, and the second publish and the index write were
\* made all the same
C8_Witness ==
  /\ Fanned
  /\ dInv.phase = "done"
  /\ dInv.tar = <<"failed", "ok">>
  /\ dInv.ver = <<"failed">>
  /\ dInv.idx = "ok"

\* The manifest lacks its index record, or versions or tarballs is missing
\* or is not an array
Malformed(manifest) ==
  \/ ~manifest.json.present
  \/ manifest.versions.kind # "array"
  \/ manifest.tarballs.kind # "array"

\* C9: on a manifest without index record, or whose versions or tarballs is
\* missing or not an array, the invocation publishes nothing and writes
\* nothing.
C9_MalformedManifestNoFanOut ==
  (dInv.phase \in {"fanout", "flushing", "done"} /\ Malformed(dInv.manifest)) =>
    /\ \A k \in DOMAIN dInv.tar : ~Attempted(dInv.tar[k])
    /\ \A k \in DOMAIN dInv.ver : ~Attempted(dInv.ver[k])
    /\ ~Attempted(dInv.idx)
    /\ tarTopic = <<>>
    /\ \A key \in DOMAIN bucket : ~bucket[key].exists

\* C10: on a valid manifest callback is invoked only when every publish and
\* every write has settled, as soon as the last one has, and the host's cb is
\* invoked once.
C10_CompletionAfterJoin ==
  Fanned =>
    /\ dInv.calls >= 1 => ~Outstanding
    /\ ~Outstanding => dInv.calls = 1
    /\ dInv.calls <= 1
    /\ dInv.cbCalls <= 1
    /\ dInv.phase = "done" <=> dInv.cbCalls = 1

\* C10 witness: cb has been invoked after two publishes, a version write and
\* the index write have all settled, one of them with an error
C10_Witness ==
  /\ Fanned
  /\ dInv.cbCalls = 1
  /\ Count(dInv.tar, "ok") = 1
  /\ Count(dInv.tar, "failed") = 1
  /\ Len(dInv.ver) = 1
  /\ Attempted(dInv.ver[1])
  /\ Attempted(dInv.idx)

\* The messages on the tarballs topic equal to message, and the well-formed
\* entries whose publish succeeded that convert to it
OnTopic(message) == {n \in DOMAIN tarTopic : tarTopic[n] = message}
PublishedAs(message) ==
  {k \in DOMAIN dInv.tar :
     dInv.tar[k] = "ok" /\ ArtifactTask(dInv.manifest.tarballs.items[k]) = message}

\* C17: each well-formed entry of manifest.tarballs is published once, as a
\* message whose data is its url and whose attributes are its path and
\* shasum, and the tarballs function reads that url, path and shasum back
\* from the message; nothing else is on the topic.
C17_TarballRefToArtifactTask ==
  Fanned =>
    /\ Len(tarTopic) = Count(dInv.tar, "ok")
    /\ \A n \in DOMAIN tarTopic :
         Cardinality(OnTopic(tarTopic[n])) = Cardinality(PublishedAs(tarTopic[n]))
    /\ \A k \in DOMAIN dInv.tar :
         LET t == dInv.manifest.tarballs.items[k] IN
           TarballOk(t) =>
             /\ Attempted(dInv.tar[k])
             /\ ArtifactTask(t).attributes.present
             /\ TaskOf(ArtifactTask(t)) =
                  [url |-> t.tarball, path |-> t.path, shasum |-> t.shasum]
             /\ dInv.tar[k] = "ok" => OnTopic(ArtifactTask(t)) # {}

\* C17 witness: two different entries have been published and the topic
\* holds the two messages
C17_Witness ==
  /\ Fanned
  /\ dInv.tar = <<"ok", "ok">>
  /\ Len(tarTopic) = 2
  /\ tarTopic[1] # tarTopic[2]
  /\ Base64Decode(tarTopic[1].data) \in {TarballUrl, TarballUrl2}

\* The key the record is specified to be persisted at: {name}/{version}/
\* index.json for a version record, {name}/index.json for the index record
KeyOf(record) ==
  IF record.kind = "version"
    THEN record.name \o "/" \o record.version \o "/index.json"
    ELSE record.name \o "/index.json"

SameRecord(r1, r2) ==
  r1.kind = r2.kind /\ r1.name = r2.name /\ r1.version = r2.version

\* C26: the key of a manifest write is fixed by the record: name/version/
\* index.json for a version record and name/index.json for the index record,
\* so two different records never have the same key, and no version record
\* has the key of a package index.
C26_ManifestKeyOfRecord ==
  /\ \A slot \in 1..2 :
       keyed[slot] # NoKey => keyed[slot].key = KeyOf(keyed[slot])
  /\ (keyed[1] # NoKey /\ keyed[2] # NoKey /\ ~SameRecord(keyed[1], keyed[2]))
       => keyed[1].key # keyed[2].key

\* C27: the callback of a version write or of the index write logs an error
\* exactly when the write failed: no error log entry for a write that
\* succeeded, one for a write that failed.
C27_ErrorLoggedIffWriteFailed ==
  Fanned =>
    /\ \A k \in DOMAIN dInv.ver :
         /\ dInv.ver[k] = "ok" => dInv.verErr[k] = 0
         /\ dInv.ver[k] = "failed" => dInv.verErr[k] = 1
    /\ dInv.idx = "ok" => dInv.idxErr = 0
    /\ dInv.idx = "failed" => dInv.idxErr = 1

\* The invocation has published nothing and written nothing
NoSideEffect ==
  /\ tarTopic = <<>>
  /\ \A key \in DOMAIN bucket : ~bucket[key].exists
  /\ dInv.tar = <<>>
  /\ dInv.ver = <<>>
  /\ dInv.idx = "none"

\* C25: a packages invocation on a message without data never calls
\* registry.get, and one whose registry.get fails has called it once and
\* does not call it again; either logs one error and invokes callback with
\* nothing published and nothing written.
C25_EmptyInputAndResolverFailure ==
  /\ dInv.resolves <= 1
  /\ (dInv.phase # "idle" /\ dInv.data = "") =>
       /\ dInv.resolves = 0
       /\ dInv.resolved = "none"
       /\ dInv.calls = 1
       /\ dInv.errs = 1
       /\ NoSideEffect
  /\ dInv.resolved = "failed" =>
       /\ dInv.resolves = 1
       /\ dInv.phase \in {"flushing", "done"}
       /\ dInv.calls = 1
       /\ dInv.errs = 1
       /\ NoSideEffect

\* C25 witness: registry.get has failed and cb has been invoked
C25_Witness ==
  /\ dInv.phase = "done"
  /\ dInv.data = PackageName
  /\ dInv.resolved = "failed"
  /\ dInv.cbCalls = 1

\* A TarballRef lacking its path, its shasum or its tarball url
Lacking(t) == t.path = "" \/ t.shasum = "" \/ t.tarball = ""

\* C24: of the entries of manifest.tarballs, one lacking path, shasum or url
\* is skipped with one error log entry and no publish, and every other entry
\* has its publish attempted and, when the publish succeeds, its message on
\* the topic; a publish that failed is logged once, and the version and index
\* writes are attempted all the same.
C24_MalformedTarballSkipped ==
  Fanned =>
    LET items == dInv.manifest.tarballs.items IN
      /\ \A k \in DOMAIN items :
           IF Lacking(items[k])
             THEN /\ dInv.tar[k] = "skipped"
                  /\ dInv.tarErr[k] = 1
                  /\ OnTopic(ArtifactTask(items[k])) = {}
             ELSE /\ Attempted(dInv.tar[k])
                  /\ dInv.tar[k] = "ok" => OnTopic(ArtifactTask(items[k])) # {}
                  /\ dInv.tarErr[k] = IF dInv.tar[k] = "failed" THEN 1 ELSE 0
      /\ Len(tarTopic) = Count(dInv.tar, "ok")
      /\ (\E k \in DOMAIN items : dInv.tar[k] = "failed") =>
           /\ \A k \in DOMAIN dInv.manifest.versions.items :
                VersionOk(dInv.manifest.versions.items[k]) => Attempted(dInv.ver[k])
           /\ IndexOk(dInv.manifest.json) => Attempted(dInv.idx)

\* C24 witness: the first entry lacks its shasum and was skipped, the entry
\* after it is published, and the version and index writes were made
C24_Witness ==
  /\ Fanned
  /\ dInv.phase = "done"
  /\ Len(dInv.tar) = 2
  /\ dInv.manifest.tarballs.items[1].shasum = ""
  /\ dInv.tar = <<"skipped", "ok">>
  /\ Len(tarTopic) = 1
  /\ dInv.ver = <<"ok">>
  /\ dInv.idx = "ok"

\* Two states of the bucket hold the same objects with the same content
SameContent(b1, b2) ==
  \A key \in DOMAIN b1 :
    b1[key].exists = b2[key].exists /\ b1[key].bytes = b2[key].bytes

\* C18: a manifest write leaves under its key the serialization of the
\* record and nothing more, whatever the key held before, and touches no
\* other key; writing a record the key holds already leaves the content of
\* the bucket as it was.
C18_ManifestWriteIdempotent ==
  [][/\ \A key \in DOMAIN bucket :
          bucket'[key].exists => bucket'[key].bytes \in WrittenAt(key)
     /\ \A k \in DOMAIN dInv.ver :
          (dInv.ver[k] = "pending" /\ dInv'.ver[k] = "ok") =>
            LET v == dInv.manifest.versions.items[k] IN
              /\ bucket'[VersionKey(v)].bytes = Stringify(v.json)
              /\ \A key \in DOMAIN bucket \ {VersionKey(v)} : bucket'[key] = bucket[key]
              /\ bucket[VersionKey(v)].bytes = Stringify(v.json) =>
                   SameContent(bucket', bucket)
     /\ (dInv.idx = "pending" /\ dInv'.idx = "ok") =>
          LET key == IndexKey(dInv.manifest.json) IN
            /\ bucket'[key].bytes = Stringify(dInv.manifest.json)
            /\ \A other \in DOMAIN bucket \ {key} : bucket'[other] = bucket[other]
            /\ bucket[key].bytes = Stringify(dInv.manifest.json) =>
                 SameContent(bucket', bucket)]_vars

\* C18 witness: the message was delivered again, and the version record and
\* the index record have been written over the copies the earlier delivery
\* left, which the third key still holds
C18_Witness ==
  /\ dInv.phase = "done"
  /\ dInv.ver = <<"ok">>
  /\ dInv.idx = "ok"
  /\ \E key \in DOMAIN bucket : bucket[key].writer = "earlier delivery"
  /\ \A key \in DOMAIN bucket : bucket[key].bytes \in WrittenAt(key)

====
